---- MODULE Spec2Model ----
(***************************************************************************)
(* Model of the zap query hook for bun (package db, queryhook.go).         *)
(*                                                                         *)
(* NewQueryHook builds a QueryHook from the defaults and an ordered list   *)
(* of options; BeforeQuery and AfterQuery are then called by the database  *)
(* layer.  AfterQuery turns one query event into zero or one call of       *)
(* logger.Log(level, message, fields...).                                  *)
(*                                                                         *)
(* Strings are TLC strings, durations are integers counting nanoseconds    *)
(* (time.Duration), errors are values with an identity and a text.         *)
(***************************************************************************)
EXTENDS Integers, Sequences, FiniteSets, TLC

VARIABLES
    pc,     \* "NewQueryHook" while the constructor runs, "ready" after it returned
    opts,   \* NewQueryHook's argument list (a local of the constructor)
    i,      \* number of options the constructor's loop has applied
    h,      \* the QueryHook struct
    sink,   \* the calls logger.Log has received, in order
    hist    \* the hook calls made so far, with their inputs and outputs

vars == <<pc, opts, i, h, sink, hist>>

(***************************************************************************)
(* Bounds                                                                  *)
(***************************************************************************)
MaxOpts == 3     \* longest option list passed to NewQueryHook
MaxCalls == 2    \* number of hook calls made on one hook

(***************************************************************************)
(* Program constants                                                       *)
(***************************************************************************)
DebugLevel == -1
InfoLevel == 0
WarnLevel == 1
ErrorLevel == 2

Microsecond == 1000
Millisecond == 1000000
Second == 1000000000

(***************************************************************************)
(* Errors.  The switch of AfterQuery compares error values, not texts, so  *)
(* an error is an identity together with the text Error() returns.         *)
(***************************************************************************)
Nil == [id |-> "nil", text |-> "<nil>"]
ErrNoRows == [id |-> "sql.ErrNoRows", text |-> "sql: no rows in result set"]
ErrTxDone == [id |-> "sql.ErrTxDone",
              text |-> "sql: transaction has already been committed or rolled back"]
ErrRelation == [id |-> "pg.42P01",
                text |-> "ERROR: relation \"nop\" does not exist (SQLSTATE=42P01)"]
\* a driver error that is not sql.ErrNoRows but prints the same text
ErrLookalike == [id |-> "driver.norows", text |-> "sql: no rows in result set"]

Errs == {Nil, ErrNoRows, ErrTxDone, ErrRelation, ErrLookalike}

(***************************************************************************)
(* Inputs                                                                  *)
(***************************************************************************)
Queries == {"SELECT 1 AS ONE", "SELECT * FROM nop"}
StartTimes == {1000000}
Nows == {2499999, 3500000}
Ctxs == {"ctx1", "ctx2"}
FieldNames == {"err", "duration"}
Precisions == {Microsecond, 0}
LevelPairs == {<<InfoLevel, WarnLevel>>, <<WarnLevel, DebugLevel>>}

Events == [Query : Queries, Err : Errs, StartTime : StartTimes]

Options ==
    [name : {"WithEnabled"}, on : BOOLEAN]
    \cup [name : {"WithVerbose"}, on : BOOLEAN]
    \cup [name : {"WithDurationAsField"}]
    \cup [name : {"WithDurationPrecision"}, precision : Precisions]
    \cup [name : {"WithErrorAsField"}, field : FieldNames]
    \cup [name : {"WithLevels"}, queryLevel : {p[1] : p \in LevelPairs},
                                 errorLevel : {p[2] : p \in LevelPairs}]
    \cup [name : {"WithDuration"}]

LevelOptions ==
    {o \in [name : {"WithLevels"}, queryLevel : {p[1] : p \in LevelPairs},
                                   errorLevel : {p[2] : p \in LevelPairs}] :
        <<o.queryLevel, o.errorLevel>> \in LevelPairs}

OptionInputs == {o \in Options : o.name = "WithLevels" => o \in LevelOptions}

OptLists == UNION {[1..n -> OptionInputs] : n \in 0..MaxOpts}

(***************************************************************************)
(* time.Duration.Round and time.Duration.String, as the hook uses them     *)
(***************************************************************************)
lessThanHalf(x, y) == x + x < y

Round(d, m) ==
    IF m <= 0 THEN d
    ELSE IF d < 0
         THEN LET r == (-d) % m
              IN  IF lessThanHalf(r, m) THEN d + r ELSE d - m + r
         ELSE LET r == d % m
              IN  IF lessThanHalf(r, m) THEN d - r ELSE d + m - r

RECURSIVE fmtFrac(_, _, _, _)
\* the digits of v below 10^prec, trailing zeros dropped, with the leading
\* "." when a digit was printed; v is returned divided by 10^prec
fmtFrac(v, prec, print, acc) ==
    IF prec = 0
    THEN [str |-> IF print THEN "." \o acc ELSE acc, v |-> v]
    ELSE LET digit == v % 10
             p == print \/ digit # 0
         IN  fmtFrac(v \div 10, prec - 1, p,
                     IF p THEN ToString(digit) \o acc ELSE acc)

DurationString(d) ==
    LET u == IF d < 0 THEN -d ELSE d
        sign == IF d < 0 THEN "-" ELSE ""
    IN  IF d = 0 THEN "0s"
        ELSE IF u < Second
        THEN LET prec == IF u < Microsecond THEN 0
                         ELSE IF u < Millisecond THEN 3 ELSE 6
                 unit == IF u < Microsecond THEN "ns"
                         ELSE IF u < Millisecond THEN "µs" ELSE "ms"
                 f == fmtFrac(u, prec, FALSE, "")
             IN  sign \o ToString(f.v) \o f.str \o unit
        ELSE LET f == fmtFrac(u, 9, FALSE, "")
                 secs == ToString(f.v % 60) \o f.str \o "s"
                 mins == f.v \div 60
                 hours == mins \div 60
             IN  sign \o
                 (IF hours > 0 THEN ToString(hours) \o "h" ELSE "") \o
                 (IF mins > 0 THEN ToString(mins % 60) \o "m" ELSE "") \o
                 secs

(***************************************************************************)
(* Options                                                                 *)
(***************************************************************************)
WithEnabled(on, qh) == [qh EXCEPT !.enabled = on]

WithVerbose(on, qh) == [qh EXCEPT !.verbose = on]

WithDurationAsField(qh) == [qh EXCEPT !.duration = TRUE, !.durationAsField = TRUE]

\* the option ignores its argument and sets durationAsField
WithDurationPrecision(precision, qh) == [qh EXCEPT !.durationAsField = TRUE]

WithErrorAsField(field, qh) ==
    [qh EXCEPT !.errorAsField = TRUE, !.errorFieldName = field]

WithLevels(queryLevel, errorLevel, qh) ==
    [qh EXCEPT !.queryLevel = queryLevel, !.errorLevel = errorLevel]

\* WithDuration choosing the message mode over an earlier field mode
WithDuration_SelectsMessage(qh) ==
    [qh EXCEPT !.duration = TRUE, !.durationAsField = FALSE]

WithDuration(qh) == [qh EXCEPT !.duration = TRUE]

\* opt(qh): calling an Option closure on the hook
ApplyOption(opt, qh) ==
    CASE opt.name = "WithEnabled" -> WithEnabled(opt.on, qh)
      [] opt.name = "WithVerbose" -> WithVerbose(opt.on, qh)
      [] opt.name = "WithDurationAsField" -> WithDurationAsField(qh)
      [] opt.name = "WithDurationPrecision" -> WithDurationPrecision(opt.precision, qh)
      [] opt.name = "WithErrorAsField" -> WithErrorAsField(opt.field, qh)
      [] opt.name = "WithLevels" -> WithLevels(opt.queryLevel, opt.errorLevel, qh)
      [] opt.name = "WithDuration" -> WithDuration(qh)

\* the struct literal NewQueryHook starts from
Defaults ==
    [errorFieldName |-> "error",
     precision |-> Millisecond,
     enabled |-> TRUE,
     verbose |-> FALSE,
     durationAsField |-> FALSE,
     errorAsField |-> FALSE,
     duration |-> FALSE,
     queryLevel |-> DebugLevel,
     errorLevel |-> ErrorLevel]

(***************************************************************************)
(* AfterQuery                                                              *)
(***************************************************************************)
\* the switch comparing the texts of the errors instead of the errors
Classify_ByText(qh, eventErr) ==
    IF eventErr.text \in {Nil.text, ErrNoRows.text, ErrTxDone.text}
    THEN [skip |-> ~qh.verbose, level |-> qh.queryLevel, err |-> Nil]
    ELSE [skip |-> FALSE, level |-> qh.errorLevel, err |-> eventErr]

\* the non-error case logging at the error level
Classify_ErrorLevelForQueries(qh, eventErr) ==
    IF eventErr \in {Nil, ErrNoRows, ErrTxDone}
    THEN [skip |-> ~qh.verbose, level |-> qh.errorLevel, err |-> Nil]
    ELSE [skip |-> FALSE, level |-> qh.errorLevel, err |-> eventErr]

\* the switch with "case nil" only
Classify_OnlyNil(qh, eventErr) ==
    IF eventErr \in {Nil}
    THEN [skip |-> ~qh.verbose, level |-> qh.queryLevel, err |-> Nil]
    ELSE [skip |-> FALSE, level |-> qh.errorLevel, err |-> eventErr]

\* the switch on event.Err: skip is the early return of the non-error case
Classify(qh, eventErr) ==
    IF eventErr \in {Nil, ErrNoRows, ErrTxDone}
    THEN [skip |-> ~qh.verbose, level |-> qh.queryLevel, err |-> Nil]
    ELSE [skip |-> FALSE, level |-> qh.errorLevel, err |-> eventErr]

\* the field branch taken on durationAsField alone
DurationPart_AsFieldAlone(qh, dur, message, fields) ==
    IF qh.durationAsField
    THEN [message |-> message,
          fields |-> Append(fields, [Key |-> "duration",
                                     Type |-> "StringerType",
                                     Interface |-> [dur |-> Round(dur, qh.precision)]])]
    ELSE IF qh.duration
    THEN [message |-> "duration: " \o DurationString(Round(dur, qh.precision))
                          \o " " \o message,
          fields |-> fields]
    ELSE [message |-> message, fields |-> fields]

\* the duration goes to a field, to the message, or nowhere
DurationPart(qh, dur, message, fields) ==
    IF qh.duration /\ qh.durationAsField
    THEN [message |-> message,
          fields |-> Append(fields, [Key |-> "duration",
                                     Type |-> "StringerType",
                                     Interface |-> [dur |-> Round(dur, qh.precision)]])]
    ELSE IF qh.duration
    THEN [message |-> "duration: " \o DurationString(Round(dur, qh.precision))
                          \o " " \o message,
          fields |-> fields]
    ELSE [message |-> message, fields |-> fields]

\* the error written to the message also when it goes to a field
ErrorPart_FieldAndSuffix(qh, err, message, fields) ==
    IF err # Nil
    THEN IF qh.errorAsField
         THEN [message |-> message \o " error: " \o err.text,
               fields |-> Append(fields, [Key |-> qh.errorFieldName,
                                          Type |-> "ErrorType",
                                          Interface |-> err])]
         ELSE [message |-> message \o " error: " \o err.text, fields |-> fields]
    ELSE [message |-> message, fields |-> fields]

\* the error field put in front of the fields
ErrorPart_FieldFirst(qh, err, message, fields) ==
    IF err # Nil
    THEN IF qh.errorAsField
         THEN [message |-> message,
               fields |-> <<[Key |-> qh.errorFieldName,
                             Type |-> "ErrorType",
                             Interface |-> err]>> \o fields]
         ELSE [message |-> message \o " error: " \o err.text, fields |-> fields]
    ELSE [message |-> message, fields |-> fields]

\* the error goes to a field or to the end of the message
ErrorPart(qh, err, message, fields) ==
    IF err # Nil
    THEN IF qh.errorAsField
         THEN [message |-> message,
               fields |-> Append(fields, [Key |-> qh.errorFieldName,
                                          Type |-> "ErrorType",
                                          Interface |-> err])]
         ELSE [message |-> message \o " error: " \o err.text, fields |-> fields]
    ELSE [message |-> message, fields |-> fields]

\* AfterQuery without the check of enabled
AfterQueryLog_NoEnabledGate(qh, event, now) ==
    LET c == Classify(qh, event.Err)
    IN  IF c.skip THEN <<>>
        ELSE LET dur == now - event.StartTime
                 d == DurationPart(qh, dur, event.Query, <<>>)
                 e == ErrorPart(qh, c.err, d.message, d.fields)
             IN  <<[level |-> c.level, message |-> e.message, fields |-> e.fields]>>

\* the calls of logger.Log one AfterQuery makes: none or one
AfterQueryLog(qh, event, now) ==
    IF ~qh.enabled THEN <<>>
    ELSE LET c == Classify(qh, event.Err)
         IN  IF c.skip THEN <<>>
             ELSE LET dur == now - event.StartTime
                      d == DurationPart(qh, dur, event.Query, <<>>)
                      e == ErrorPart(qh, c.err, d.message, d.fields)
                  IN  <<[level |-> c.level, message |-> e.message, fields |-> e.fields]>>

\* what BeforeQuery returns for a context
BeforeQueryResult(ctx) == ctx

(***************************************************************************)
(* The state machine                                                       *)
(***************************************************************************)
Init ==
    /\ pc = "NewQueryHook"
    /\ opts \in OptLists
    /\ i = 0
    /\ h = Defaults
    /\ sink = <<>>
    /\ hist = <<>>

\* one iteration of "for _, opt := range opts { opt(qh) }"
NewQueryHookLoop ==
    /\ pc = "NewQueryHook"
    /\ i < Len(opts)
    /\ h' = ApplyOption(opts[i + 1], h)
    /\ i' = i + 1
    /\ UNCHANGED <<pc, opts, sink, hist>>

\* "return qh": the argument list and the loop index go out of scope
NewQueryHookReturn ==
    /\ pc = "NewQueryHook"
    /\ i = Len(opts)
    /\ pc' = "ready"
    /\ opts' = <<>>
    /\ i' = 0
    /\ UNCHANGED <<h, sink, hist>>

BeforeQuery(ctx) ==
    /\ pc = "ready"
    /\ Len(hist) < MaxCalls
    /\ hist' = Append(hist, [op |-> "BeforeQuery", ctx |-> ctx,
                             ret |-> BeforeQueryResult(ctx)])
    /\ UNCHANGED <<pc, opts, i, h, sink>>

\* an AfterQuery that turns verbose on once it has seen a genuine error
AfterQuery_RemembersErrors(event, now) ==
    /\ pc = "ready"
    /\ Len(hist) < MaxCalls
    /\ LET out == AfterQueryLog(h, event, now)
       IN  /\ sink' = sink \o out
           /\ hist' = Append(hist, [op |-> "AfterQuery", event |-> event,
                                    now |-> now, out |-> out])
    /\ h' = IF event.Err \in {Nil, ErrNoRows, ErrTxDone} THEN h
            ELSE [h EXCEPT !.verbose = TRUE]
    /\ UNCHANGED <<pc, opts, i>>

AfterQuery(event, now) ==
    /\ pc = "ready"
    /\ Len(hist) < MaxCalls
    /\ LET out == AfterQueryLog(h, event, now)
       IN  /\ sink' = sink \o out
           /\ hist' = Append(hist, [op |-> "AfterQuery", event |-> event,
                                    now |-> now, out |-> out])
    /\ UNCHANGED <<pc, opts, i, h>>

Next ==
    \/ NewQueryHookLoop
    \/ NewQueryHookReturn
    \/ \E ctx \in Ctxs : BeforeQuery(ctx)
    \/ \E event \in Events, now \in Nows : AfterQuery(event, now)

Spec == Init /\ [][Next]_vars

(***************************************************************************)
(* Vocabulary of the properties                                            *)
(***************************************************************************)
AfterCalls == {k \in 1..Len(hist) : hist[k].op = "AfterQuery"}
BeforeCalls == {k \in 1..Len(hist) : hist[k].op = "BeforeQuery"}

Benign == {ErrNoRows, ErrTxDone}
Genuine(err) == err \notin {Nil} \cup Benign

\* the duration-logging mode a configuration stands for
Mode(qh) ==
    IF qh.duration /\ qh.durationAsField THEN "field"
    ELSE IF qh.duration THEN "message" ELSE "off"

DurationFields(rec) ==
    {n \in 1..Len(rec.fields) : rec.fields[n].Type = "StringerType"}
ErrorFields(rec) ==
    {n \in 1..Len(rec.fields) : rec.fields[n].Type = "ErrorType"}

\* the elapsed time of a call, rounded to the configured precision
Rounded(call) == Round(call.now - call.event.StartTime, h.precision)

\* the text the message mode puts before the query
DurationPrefix(call) == "duration: " \o DurationString(Rounded(call)) \o " "

\* the message without any error text, as the duration mode demands it
Undecorated(call) ==
    IF Mode(h) = "message" THEN DurationPrefix(call) \o call.event.Query
    ELSE call.event.Query

ErrorSuffix(err) == " error: " \o err.text

RECURSIVE Emitted(_)
\* the records the calls of a history handed to the logger, in order
Emitted(calls) ==
    IF calls = <<>> THEN <<>>
    ELSE LET c == calls[Len(calls)]
         IN  Emitted(SubSeq(calls, 1, Len(calls) - 1))
                 \o (IF c.op = "AfterQuery" THEN c.out ELSE <<>>)

(***************************************************************************)
(* C1.  A disabled hook never emits: whatever events AfterQuery was called *)
(* with (no error, benign sentinel, genuine error) and whatever verbose    *)
(* is, no call produced a record and the sink has received nothing.        *)
(***************************************************************************)
C1_DisabledEmitsNothing ==
    (pc = "ready" /\ ~h.enabled) =>
        /\ sink = <<>>
        /\ \A k \in AfterCalls : hist[k].out = <<>>

C1_Witness ==
    /\ pc = "ready" /\ ~h.enabled /\ h.verbose
    /\ \E k \in AfterCalls : hist[k].event.Err = ErrRelation
    /\ \E k \in AfterCalls : hist[k].event.Err = Nil

(***************************************************************************)
(* C2.  On an enabled hook every AfterQuery call whose error is genuine    *)
(* (not nil, not sql.ErrNoRows, not sql.ErrTxDone) emits exactly one       *)
(* record, at the configured error level, with verbose on or off.          *)
(***************************************************************************)
C2_GenuineErrorAlwaysLogged ==
    (pc = "ready" /\ h.enabled) =>
        \A k \in AfterCalls :
            Genuine(hist[k].event.Err) =>
                /\ Len(hist[k].out) = 1
                /\ hist[k].out[1].level = h.errorLevel
                /\ \E n \in 1..Len(sink) : sink[n] = hist[k].out[1]

C2_Witness ==
    /\ pc = "ready" /\ h.enabled /\ ~h.verbose /\ h.errorLevel = WarnLevel
    /\ \E k \in AfterCalls :
          /\ hist[k].event.Err = ErrLookalike
          /\ Len(hist[k].out) = 1
    /\ Len(sink) >= 1

(***************************************************************************)
(* C3.  On an enabled hook an AfterQuery call with no error emits exactly  *)
(* one record at the configured query level when verbose is on and no      *)
(* record when verbose is off.                                             *)
(***************************************************************************)
C3_NoErrorFollowsVerbose ==
    (pc = "ready" /\ h.enabled) =>
        \A k \in AfterCalls :
            hist[k].event.Err = Nil =>
                IF h.verbose
                THEN /\ Len(hist[k].out) = 1
                     /\ hist[k].out[1].level = h.queryLevel
                ELSE hist[k].out = <<>>

C3_Witness ==
    /\ pc = "ready" /\ h.enabled /\ h.verbose
    /\ h.queryLevel = InfoLevel /\ h.errorLevel = WarnLevel
    /\ \E k \in AfterCalls :
          /\ hist[k].event.Err = Nil
          /\ Len(hist[k].out) = 1
          /\ hist[k].out[1].level = InfoLevel

(***************************************************************************)
(* C4.  An event carrying sql.ErrNoRows or sql.ErrTxDone is handled as an  *)
(* event without error: nothing is emitted when verbose is off; when       *)
(* verbose is on one record is emitted at the query level, it has no error *)
(* field and its message carries no " error: " text.                       *)
(***************************************************************************)
C4_BenignSentinelsAsSuccess ==
    (pc = "ready" /\ h.enabled) =>
        \A k \in AfterCalls :
            hist[k].event.Err \in Benign =>
                IF h.verbose
                THEN /\ Len(hist[k].out) = 1
                     /\ hist[k].out[1].level = h.queryLevel
                     /\ ErrorFields(hist[k].out[1]) = {}
                     /\ hist[k].out[1].message = Undecorated(hist[k])
                ELSE hist[k].out = <<>>

C4_Witness ==
    /\ pc = "ready" /\ h.enabled /\ h.verbose /\ h.errorAsField
    /\ h.queryLevel # h.errorLevel
    /\ \E k \in AfterCalls :
          /\ hist[k].event.Err = ErrNoRows
          /\ Len(hist[k].out) = 1
    /\ \E k \in AfterCalls :
          /\ hist[k].event.Err = ErrTxDone
          /\ Len(hist[k].out) = 1

(***************************************************************************)
(* C5.  Applying WithDurationPrecision(p) sets the precision to p and      *)
(* leaves the duration-logging mode (off, message, field) as it was.       *)
(***************************************************************************)
C5_PrecisionOrthogonalToMode ==
    [][(/\ pc = "NewQueryHook"
        /\ i < Len(opts)
        /\ opts[i + 1].name = "WithDurationPrecision")
            => /\ h'.precision = opts[i + 1].precision
               /\ Mode(h') = Mode(h)]_vars

(***************************************************************************)
(* C6.  The options applied so far and the last of them with a given name  *)
(***************************************************************************)
Applied(names) == {k \in 1..i : opts[k].name \in names}

LastOf(names) ==
    IF Applied(names) = {} THEN 0
    ELSE CHOOSE k \in Applied(names) : \A j \in Applied(names) : j <= k

\* the fields that are one option's argument: the last such option decides
LastWinsOnArguments ==
    /\ h.enabled = IF LastOf({"WithEnabled"}) = 0 THEN TRUE
                   ELSE opts[LastOf({"WithEnabled"})].on
    /\ h.verbose = IF LastOf({"WithVerbose"}) = 0 THEN FALSE
                   ELSE opts[LastOf({"WithVerbose"})].on
    /\ h.errorAsField = (LastOf({"WithErrorAsField"}) # 0)
    /\ h.errorFieldName = IF LastOf({"WithErrorAsField"}) = 0 THEN "error"
                          ELSE opts[LastOf({"WithErrorAsField"})].field
    /\ h.queryLevel = IF LastOf({"WithLevels"}) = 0 THEN DebugLevel
                      ELSE opts[LastOf({"WithLevels"})].queryLevel
    /\ h.errorLevel = IF LastOf({"WithLevels"}) = 0 THEN ErrorLevel
                      ELSE opts[LastOf({"WithLevels"})].errorLevel

C7_ErrorInExactlyOnePlace ==
    /\ ~h.errorAsField => h.errorFieldName = "error"
    /\ pc = "ready" =>
        \A k \in AfterCalls :
            (Genuine(hist[k].event.Err) /\ hist[k].out # <<>>) =>
                LET rec == hist[k].out[1]
                IN  IF h.errorAsField
                    THEN /\ Cardinality(ErrorFields(rec)) = 1
                         /\ \A n \in ErrorFields(rec) :
                               /\ rec.fields[n].Key = h.errorFieldName
                               /\ rec.fields[n].Interface = hist[k].event.Err
                         /\ rec.message = Undecorated(hist[k])
                    ELSE /\ ErrorFields(rec) = {}
                         /\ rec.message = Undecorated(hist[k])
                                            \o ErrorSuffix(hist[k].event.Err)

C7_Witness ==
    /\ pc = "ready" /\ h.errorAsField /\ h.errorFieldName = "err"
    /\ \E k \in AfterCalls :
          /\ hist[k].event.Err = ErrRelation
          /\ hist[k].out # <<>>
          /\ hist[k].out[1].message = "SELECT * FROM nop"
          /\ hist[k].out[1].fields =
               <<[Key |-> "err", Type |-> "ErrorType", Interface |-> ErrRelation]>>

(***************************************************************************)
(* C8.  A record renders the duration as the mode says.  Field mode: one   *)
(* duration field named "duration" holding the rounded duration, and the   *)
(* message starts with the query.  Message mode: the message is            *)
(* "duration: <rounded duration> " followed by the query, and there is no  *)
(* duration field.  Off: the message starts with the query and there is no *)
(* duration field.  With the default options and verbose, a record without *)
(* error has the query as message and no fields.  (A duration field is the *)
(* field of type Stringer; the error field may be named "duration" too.)   *)
(***************************************************************************)
C8_DurationFollowsMode ==
    pc = "ready" =>
        \A k \in AfterCalls :
            hist[k].out # <<>> =>
                LET rec == hist[k].out[1]
                    err == hist[k].event.Err
                    tail == IF Genuine(err) /\ ~h.errorAsField
                            THEN ErrorSuffix(err) ELSE ""
                IN  /\ Mode(h) = "field" =>
                          /\ Cardinality(DurationFields(rec)) = 1
                          /\ \A n \in DurationFields(rec) :
                                /\ rec.fields[n].Key = "duration"
                                /\ rec.fields[n].Interface = [dur |-> Rounded(hist[k])]
                          /\ rec.message = hist[k].event.Query \o tail
                    /\ Mode(h) = "message" =>
                          /\ DurationFields(rec) = {}
                          /\ rec.message =
                               "duration: " \o DurationString(Rounded(hist[k])) \o " "
                                   \o hist[k].event.Query \o tail
                    /\ Mode(h) = "off" =>
                          /\ DurationFields(rec) = {}
                          /\ rec.message = hist[k].event.Query \o tail
                    /\ (h = [Defaults EXCEPT !.verbose = TRUE] /\ ~Genuine(err)) =>
                          /\ rec.message = hist[k].event.Query
                          /\ rec.fields = <<>>

C8_Witness ==
    /\ pc = "ready" /\ Mode(h) = "message"
    /\ \E k \in AfterCalls :
          /\ hist[k].out # <<>>
          /\ hist[k].out[1].message = "duration: 1ms SELECT 1 AS ONE"
          /\ hist[k].out[1].fields = <<>>

(***************************************************************************)
(* C9.  A record has at most two fields, at most one duration field and at *)
(* most one error field, and the duration field precedes the error field.  *)
(***************************************************************************)
C9_DurationFieldBeforeErrorField ==
    \A n \in 1..Len(sink) :
        /\ Len(sink[n].fields) <= 2
        /\ Cardinality(DurationFields(sink[n])) <= 1
        /\ Cardinality(ErrorFields(sink[n])) <= 1
        /\ \A a \in DurationFields(sink[n]), b \in ErrorFields(sink[n]) : a < b

C9_Witness ==
    \E n \in 1..Len(sink) :
        /\ Len(sink[n].fields) = 2
        /\ sink[n].fields[1].Type = "StringerType"
        /\ sink[n].fields[2].Type = "ErrorType"
        /\ sink[n].fields[2].Key = "duration"

(***************************************************************************)
(* C10.  The hooks keep no state.  No hook call changes the configuration; *)
(* BeforeQuery returns the context it was given and logs nothing; an       *)
(* AfterQuery call logs at most one record, and the sink holds exactly the *)
(* records of the calls in order; two AfterQuery calls with the same event *)
(* log records that agree in level, message and fields but for the         *)
(* duration value.                                                         *)
(***************************************************************************)
SameButDuration(a, b) ==
    /\ Len(a.out) = Len(b.out)
    /\ a.out # <<>> =>
        LET ra == a.out[1]
            rb == b.out[1]
        IN  /\ ra.level = rb.level
            /\ Len(ra.fields) = Len(rb.fields)
            /\ \A n \in 1..Len(ra.fields) :
                  /\ ra.fields[n].Key = rb.fields[n].Key
                  /\ ra.fields[n].Type = rb.fields[n].Type
                  /\ ra.fields[n].Type = "ErrorType" =>
                        ra.fields[n].Interface = rb.fields[n].Interface
            /\ IF Mode(h) = "message"
               THEN \E t \in {a.event.Query,
                              a.event.Query \o ErrorSuffix(a.event.Err)} :
                        /\ ra.message = DurationPrefix(a) \o t
                        /\ rb.message = DurationPrefix(b) \o t
               ELSE ra.message = rb.message

HooksStateless ==
    /\ \A k \in BeforeCalls : hist[k].ret = hist[k].ctx
    /\ \A k \in AfterCalls : Len(hist[k].out) <= 1
    /\ sink = Emitted(hist)
    /\ \A j, k \in AfterCalls :
          hist[j].event = hist[k].event => SameButDuration(hist[j], hist[k])

HookCallFrame ==
    pc = "ready" =>
        /\ h' = h
        /\ (Len(hist') = Len(hist) + 1 /\ hist'[Len(hist')].op = "BeforeQuery")
              => sink' = sink

C10_HooksKeepNoState == []HooksStateless /\ [][HookCallFrame]_vars

C10_Witness ==
    /\ pc = "ready" /\ Mode(h) = "message" /\ Len(sink) >= 2
    /\ \E j, k \in AfterCalls :
          /\ hist[j].event = hist[k].event
          /\ hist[j].now # hist[k].now
          /\ hist[j].out # <<>>
          /\ hist[j].out[1].message # hist[k].out[1].message

====
